---- MODULE Spec2Model ----
(***************************************************************************)
(* hl: the deploy / rollback pipeline (commands/deploy.ts, rollback.js,    *)
(* lib/docker.ts) and the health gate (lib/health.ts), as a state machine. *)
(*                                                                         *)
(* JavaScript strings are sequences of one-character strings, so that      *)
(* slice, the template literals and the duration regex are computed.       *)
(* One asynchronous handler is one process: every `await execa(...)` is a  *)
(* Call step (the command is issued and is in flight) and an Exit step     *)
(* (the command exits with 0 or not, acts on the registry / the host, and  *)
(* the handler resumes or throws).                                         *)
(***************************************************************************)
EXTENDS Integers, Sequences, FiniteSets, TLC

VARIABLES
    inv,        \* the invocation: entry point and its command-line / stdin input
    cfgFile,    \* homelab.yml of the app on disk (NoFile when missing or invalid)
    appDir,     \* the compose files in the app's directory
    runs,       \* how many times the operator ran this command so far
    prev,       \* how the retag of the run before ended ("none" in the first run)
    other,      \* a second hl process for the same app: its position, commands and their status
    sec,        \* hl secrets set: its arguments and position, and the app's .env file
    cfg,        \* the config the handler loaded (NoCfg before loadConfig)
    pc,         \* handler position: "load", "call", "await", "health", "gate", "done", "failed", "skipped"
    stage,      \* index in the handler's program of the command it is at (0 before)
    status,     \* per issued command: "inflight", "0" (exited with 0) or "nonzero"
    cmds,       \* every external command issued so far, with its arguments, in order
    out,        \* progress lines written by log() / ok()
    failure,    \* the error that reached cli.ts's catch (NoError if none)
    exit,       \* process exit status (Running while the handler runs)
    registry,   \* the registry: image reference -> image
    localImg,   \* the host's local image store: image reference -> image
    running,    \* the image the app's stack runs
    now,        \* Date.now(), in ms
    start,      \* waitForHealthy: start
    timeoutMs,  \* waitForHealthy: timeoutMs
    intervalMs, \* waitForHealthy: intervalMs
    hpc,        \* waitForHealthy position: "idle", "ping", "sleep", "returned", "thrown"
    polls,      \* pings issued by this gate
    sleeps,     \* interval sleeps started by this gate
    lastPoll,   \* outcome of the last resolved ping, and the ms it took
    seen        \* the kinds of outcome this gate's pings had so far

invVars    == <<inv, cfgFile, appDir, runs, prev, other, sec>>
progVars   == <<cfg, pc, stage, status, cmds, out, failure, exit>>
worldVars  == <<registry, localImg, running>>
healthVars == <<start, timeoutMs, intervalMs, hpc, polls, sleeps, lastPoll, seen>>
vars == <<invVars, progVars, worldVars, now, healthVars>>

(***************************************************************************)
(* Strings                                                                 *)
(***************************************************************************)
Digits == <<"0", "1", "2", "3", "4", "5", "6", "7", "8", "9">>

IsDigit(c) == \E i \in 1..Len(Digits) : Digits[i] = c

DigitVal(c) == (CHOOSE i \in 1..Len(Digits) : Digits[i] = c) - 1

\* String.prototype.slice(0, n)
Slice0(s, n) == SubSeq(s, 1, IF Len(s) < n THEN Len(s) ELSE n)

\* String.prototype.startsWith
StartsWith(s, p) == Len(s) >= Len(p) /\ SubSeq(s, 1, Len(p)) = p

\* the value JavaScript reads from a property that does not exist
Undefined == <<"undefined">>

S_latest == <<"l", "a", "t", "e", "s", "t">>
S_master == <<"m", "a", "s", "t", "e", "r">>
S_dev == <<"d", "e", "v">>
S_dash == <<"-">>
S_ms == <<"m", "s">>
S_s == <<"s">>
S_m == <<"m">>
S_refsHeads == <<"r", "e", "f", "s", "/", "h", "e", "a", "d", "s", "/">>
S_refsTags == <<"r", "e", "f", "s", "/", "t", "a", "g", "s", "/">>

(***************************************************************************)
(* lib/config.ts: parseDuration                                            *)
(***************************************************************************)
\* length of the longest prefix of s made of digits: what (\d+) matches
RECURSIVE DigitPrefix(_, _)
DigitPrefix(s, i) ==
    IF i < Len(s) /\ IsDigit(s[i + 1]) THEN DigitPrefix(s, i + 1) ELSE i

\* Number(m[1]) of a digit string
RECURSIVE DecimalValue(_)
DecimalValue(d) ==
    IF d = << >> THEN 0
    ELSE 10 * DecimalValue(SubSeq(d, 1, Len(d) - 1)) + DigitVal(d[Len(d)])

MinuteMs == 60000
SecondMs == 1000

BadDuration == [ok |-> FALSE, ms |-> 0]

\* variant of parseDuration: the digits may be missing, as with (\d*)
parseDurationDigitsOptional(s) ==
    LET k == DigitPrefix(s, 0)
        unit == SubSeq(s, k + 1, Len(s))
        n == DecimalValue(SubSeq(s, 1, k))
    IN  IF unit \notin {S_ms, S_s, S_m} THEN BadDuration
        ELSE [ok |-> TRUE,
              ms |-> IF unit = S_ms THEN n
                     ELSE IF unit = S_s THEN n * SecondMs ELSE n * MinuteMs]

\* s.match(/^(\d+)(ms|s|m)$/): n, n * 1000 or n * 60_000, or the throw
parseDuration(s) ==
    LET k == DigitPrefix(s, 0)
        unit == SubSeq(s, k + 1, Len(s))
        n == DecimalValue(SubSeq(s, 1, k))
    IN  IF k = 0 \/ unit \notin {S_ms, S_s, S_m} THEN BadDuration
        ELSE [ok |-> TRUE,
              ms |-> IF unit = S_ms THEN n
                     ELSE IF unit = S_s THEN n * SecondMs ELSE n * MinuteMs]

(***************************************************************************)
(* lib/docker.ts: tagFor                                                   *)
(***************************************************************************)
ShortLen == 7

\* an image reference `${repo}:${tag}`
Ref(repo, tag) == [repo |-> repo, tag |-> tag]

\* variant of tagFor: the short reference has 8 characters
tagForLong(c, sha, branch) ==
    LET short == Slice0(sha, ShortLen + 1)
    IN  [sha |-> Ref(c.image, short),
         branchSha |-> Ref(c.image, branch \o S_dash \o short),
         latest |-> Ref(c.image, S_latest)]

\* `${cfg.image}:${short}`, `${cfg.image}:${branch}-${short}`, `${cfg.image}:latest`
tagFor(c, sha, branch) ==
    LET short == Slice0(sha, ShortLen)
    IN  [sha |-> Ref(c.image, short),
         branchSha |-> Ref(c.image, branch \o S_dash \o short),
         latest |-> Ref(c.image, S_latest)]

(***************************************************************************)
(* Inputs: the app's homelab.yml, the registry, the command lines          *)
(***************************************************************************)
D_2s == <<"2", "s">>
D_500ms == <<"5", "0", "0", "m", "s">>
D_0ms == <<"0", "m", "s">>
D_3ms == <<"3", "m", "s">>
D_2h == <<"2", "h">>
D_empty == << >>

\* health.timeout and health.interval of the config files considered:
\* z.string() accepts every string, a valid duration or not
HealthSettings ==
    { <<D_2s, D_500ms>>, <<D_500ms, D_2s>>, <<D_0ms, D_500ms>>, <<D_3ms, D_0ms>>,
      <<D_2h, D_500ms>>, <<D_2s, D_empty>> }

AppName == "recipes"
ImageRepo == "registry.example/recipes"
HealthUrl == "http://recipes:8080/healthz"

\* ConfigSchema.parse of a homelab.yml
ConfigOf(hs) ==
    [app |-> AppName,
     image |-> ImageRepo,
     network |-> "traefik_proxy",
     platforms |-> "linux/amd64",
     health |-> [url |-> HealthUrl, timeout |-> hs[1], interval |-> hs[2]],
     migrations |-> [command |-> <<"bin/rails", "db:migrate">>, env |-> "RAILS_ENV=production"]]

NoFile == [app |-> "-"]
NoCfg == [app |-> "?"]

ConfigFiles == {ConfigOf(hs) : hs \in HealthSettings} \cup {NoFile}

\* commits: the one being deployed, a short reference, and two deployed before
ShaSeven == <<"9", "f", "8", "e", "7", "d", "6">>
ShaNew == <<"a", "b", "c", "1", "2", "3", "d", "e", "f", "4", "5", "6", "7">>
ShaTiny == <<"a", "b", "c", "1", "2">>
ShaPrev == <<"e", "e", "f", "6", "f", "c", "6", "9", "9">>
ShaCur == <<"7", "7", "7", "1", "2", "3", "4", "0", "0">>
\* the image built from a commit
Img(sha) == [commit |-> sha]

NoImage == [commit |-> <<"none">>]

Get(f, r) == IF r \in DOMAIN f THEN f[r] ELSE NoImage

Has(f, r) == r \in DOMAIN f

Put(f, r, img) == [x \in DOMAIN f \cup {r} |-> IF x = r THEN img ELSE f[x]]

PutAll(f, rs, img) == [x \in DOMAIN f \cup rs |-> IF x \in rs THEN img ELSE f[x]]

\* the registry after the deploys of ShaPrev and ShaCur on master, in this order
RegistryBefore ==
    LET r0 == PutAll(<< >>, {Ref(ImageRepo, Slice0(ShaPrev, ShortLen)),
                             Ref(ImageRepo, S_master \o S_dash \o Slice0(ShaPrev, ShortLen))},
                     Img(ShaPrev))
        r1 == PutAll(r0, {Ref(ImageRepo, Slice0(ShaCur, ShortLen)),
                          Ref(ImageRepo, S_master \o S_dash \o Slice0(ShaCur, ShortLen)),
                          Ref(ImageRepo, S_latest)},
                     Img(ShaCur))
    IN  r1

LocalBefore == Put(<< >>, Ref(ImageRepo, S_latest), Img(ShaCur))

Branches == {S_master, S_dev}

Update(ref, new) == [ref |-> ref, new |-> new]

\* what getRefUpdatesFromStdin returns for the pushes considered
HookInputs ==
    { << >>,
      <<Update(S_refsTags \o <<"v", "1">>, ShaPrev)>>,
      <<Update(S_refsHeads \o S_master, ShaNew)>>,
      <<Update(S_refsTags \o <<"v", "1">>, ShaPrev),
        Update(S_refsHeads \o S_dev, ShaNew),
        Update(S_refsHeads \o S_master, ShaCur)>> }

NoApp == ""

Invocation(entry, app, sha, branch, hook, updates) ==
    [entry |-> entry, app |-> app, sha |-> sha, branch |-> branch,
     hook |-> hook, updates |-> updates]

\* hl deploy --app --sha --branch (src/commands/deploy.ts)
DeployInvocations ==
    { Invocation("deploy", AppName, s, b, FALSE, << >>) :
        s \in {ShaNew, ShaSeven, ShaTiny}, b \in Branches }

\* hl deploy --hook / --app (dist/commands/deploy.js); without --hook, sha and
\* branch are process.env.SHA ?? "" and process.env.BRANCH ?? "master"
HookInvocations ==
    { Invocation("hook", a, << >>, << >>, TRUE, u) : a \in {AppName, NoApp}, u \in HookInputs }
    \cup { Invocation("hook", a, s, S_master, FALSE, << >>) :
             a \in {AppName, NoApp}, s \in {ShaNew, << >>} }

\* hl rollback <app> <sha>
RollbackTargets ==
    { Slice0(ShaPrev, ShortLen), ShaPrev, S_master \o S_dash \o Slice0(ShaPrev, ShortLen),
      Slice0(ShaNew, ShortLen) }

RollbackInvocations ==
    { Invocation("rollback", AppName, t, << >>, FALSE, << >>) : t \in RollbackTargets }

Invocations == DeployInvocations \cup HookInvocations \cup RollbackInvocations

ClockStarts == {0, 7000}

\* no second process
NoOther == [pc |-> "idle", sha |-> << >>, stage |-> 0, cmds |-> << >>, status |-> << >>]

\* the app's directory after `hl init`, and after an accessory was added to it
AppDirs == { {"compose.yml"}, {"compose.yml", "compose.postgres.yml"} }

Running == "running"
NoError == [kind |-> "none", text |-> "", op |-> "", detail |-> << >>]
NoPoll == [kind |-> "none", status |-> 0, ms |-> 0]

\* the app has no .env file
NoEnvFile == <<"absent">>

\* no `hl secrets set` is run
NoSecrets ==
    [pc |-> "idle", pairs |-> << >>, file |-> NoEnvFile, before |-> NoEnvFile,
     first |-> NoEnvFile, dir |-> FALSE, sets |-> 0, error |-> << >>]

Init ==
    /\ inv \in Invocations
    /\ cfgFile \in ConfigFiles
    /\ appDir \in AppDirs
    /\ runs = 1
    /\ prev = "none"
    /\ other = NoOther
    /\ sec = NoSecrets
    /\ cfg = NoCfg
    /\ pc = "load"
    /\ stage = 0
    /\ status = << >>
    /\ cmds = << >>
    /\ out = << >>
    /\ failure = NoError
    /\ exit = Running
    /\ registry = RegistryBefore
    /\ localImg = LocalBefore
    /\ running = Img(ShaCur)
    /\ now \in ClockStarts
    /\ start = 0
    /\ timeoutMs = 0
    /\ intervalMs = 0
    /\ hpc = "idle"
    /\ polls = 0
    /\ sleeps = 0
    /\ lastPoll = NoPoll
    /\ seen = {}

(***************************************************************************)
(* lib/docker.ts: the external commands, with the arguments that matter    *)
(***************************************************************************)
\* export const HL_ROOT
HL_ROOT == "/home/felipecsl/prj/apps"

\* path.join(HL_ROOT, app), as the sequence of its segments
appDirOf(app) == <<HL_ROOT, app>>

\* a command run without the cwd option runs in the directory of the process
Cmd(op, refs, network, files) ==
    [op |-> op, refs |-> refs, network |-> network, files |-> files, cwd |-> << >>]

\* execa(..., { cwd: dir })
WithCwd(c, dir) == [c EXCEPT !.cwd = dir]

\* docker buildx build --push -t ... : one command for all the tags
buildAndPush(tags) == <<Cmd("build", tags, "", << >>)>>

\* docker run --rm --env-file .env --network cfg.network imageTag command
runMigrations(c, imageTag) ==
    <<WithCwd(Cmd("migrate", <<imageTag>>, c.network, << >>), appDirOf(c.app))>>

\* variant of retagLatest: the push is left out
retagLatestWithoutPush(image, fromTag) ==
    <<Cmd("pull", <<fromTag>>, "", << >>),
      Cmd("tag", <<fromTag, Ref(image, S_latest)>>, "", << >>)>>

\* variant of retagLatest: the source tag is pushed
retagLatestPushingSource(image, fromTag) ==
    <<Cmd("pull", <<fromTag>>, "", << >>),
      Cmd("tag", <<fromTag, Ref(image, S_latest)>>, "", << >>),
      Cmd("push", <<fromTag>>, "", << >>)>>

\* variant of retagLatest: the push is made before the tag
retagLatestPushBeforeTag(image, fromTag) ==
    <<Cmd("pull", <<fromTag>>, "", << >>),
      Cmd("push", <<Ref(image, S_latest)>>, "", << >>),
      Cmd("tag", <<fromTag, Ref(image, S_latest)>>, "", << >>)>>

\* docker pull fromTag; docker tag fromTag image:latest; docker push image:latest
retagLatest(image, fromTag) ==
    <<Cmd("pull", <<fromTag>>, "", << >>),
      Cmd("tag", <<fromTag, Ref(image, S_latest)>>, "", << >>),
      Cmd("push", <<Ref(image, S_latest)>>, "", << >>)>>

\* variant of restartCompose: up -d is run before pull
restartComposeUpFirst(c) ==
    LET dir == appDirOf(c.app)
    IN  <<WithCwd(Cmd("cup", << >>, "", <<"compose.yml">>), dir),
          WithCwd(Cmd("cpull", << >>, "", <<"compose.yml">>), dir)>>

\* docker compose -f compose.yml pull; docker compose -f compose.yml up -d,
\* both with cwd: appDir(cfg.app)
restartCompose(c) ==
    LET dir == appDirOf(c.app)
    IN  <<WithCwd(Cmd("cpull", << >>, "", <<"compose.yml">>), dir),
          WithCwd(Cmd("cup", << >>, "", <<"compose.yml">>), dir)>>

(***************************************************************************)
(* The three handlers                                                      *)
(***************************************************************************)
\* updates.find((u) => u.ref.startsWith("refs/heads/"))
HeadIndex(updates) ==
    IF \E i \in 1..Len(updates) : StartsWith(updates[i].ref, S_refsHeads)
    THEN CHOOSE i \in 1..Len(updates) :
            /\ StartsWith(updates[i].ref, S_refsHeads)
            /\ \A j \in 1..(i - 1) : ~StartsWith(updates[j].ref, S_refsHeads)
    ELSE 0

\* head.ref.replace("refs/heads/", "") of a ref that starts with refs/heads/
StripHeads(ref) == SubSeq(ref, Len(S_refsHeads) + 1, Len(ref))

\* sha and branch as the handler of the invocation holds them
ShaOf(i) ==
    IF i.entry = "hook" /\ i.hook THEN i.updates[HeadIndex(i.updates)].new ELSE i.sha

BranchOf(i) ==
    IF i.entry = "hook" /\ i.hook
    THEN StripHeads(i.updates[HeadIndex(i.updates)].ref)
    ELSE i.branch

\* `${cfg}` of the config object
ObjectObject == "[object Object]"

\* variant of DeployProgram: the retag is made a second time
DeployProgramRetaggingTwice(c, i) ==
    LET tags == tagFor(c, i.sha, i.branch)
    IN  buildAndPush(<<tags.sha, tags.branchSha, tags.latest>>)
        \o runMigrations(c, tags.sha)
        \o retagLatest(c.image, tags.sha)
        \o retagLatest(c.image, tags.sha)
        \o restartCompose(c)

\* variant of DeployProgram: the migrations run on the latest tag
DeployProgramMigratingLatest(c, i) ==
    LET tags == tagFor(c, i.sha, i.branch)
    IN  buildAndPush(<<tags.sha, tags.branchSha, tags.latest>>)
        \o runMigrations(c, tags.latest)
        \o retagLatest(c.image, tags.sha)
        \o restartCompose(c)

\* src/commands/deploy.ts: the commands awaited before waitForHealthy, in order
DeployProgram(c, i) ==
    LET tags == tagFor(c, i.sha, i.branch)
    IN  buildAndPush(<<tags.sha, tags.branchSha, tags.latest>>)
        \o runMigrations(c, tags.sha)
        \o retagLatest(c.image, tags.sha)
        \o restartCompose(c)

\* dist/commands/deploy.js: the hook variant, which passes cfg to retagLatest
HookProgram(c, i) ==
    LET short == Slice0(ShaOf(i), ShortLen)
        tagSha == Ref(c.image, short)
        tagBranchSha == Ref(c.image, BranchOf(i) \o S_dash \o short)
        tagLatest == Ref(c.image, S_latest)
    IN  buildAndPush(<<tagSha, tagBranchSha, tagLatest>>)
        \o runMigrations(c, tagSha)
        \o retagLatest(ObjectObject, tagSha)
        \o restartCompose(c)

\* variant of RollbackProgram: the migrations run before the retag
RollbackProgramMigrating(c, i) ==
    LET from == Ref(c.image, Slice0(i.sha, ShortLen))
    IN  runMigrations(c, from) \o retagLatest(c.image, from) \o restartCompose(c)

\* variant of RollbackProgram: the target is used as the tag, uncut
RollbackProgramWholeTarget(c, i) ==
    LET from == Ref(c.image, i.sha)
    IN  retagLatest(c.image, from) \o restartCompose(c)

\* variant of RollbackProgram: the compose pull is left to compose up
RollbackProgramWithoutComposePull(c, i) ==
    LET from == Ref(c.image, Slice0(i.sha, ShortLen))
    IN  retagLatest(c.image, from) \o <<restartCompose(c)[2]>>

\* rollback.js
RollbackProgram(c, i) ==
    LET from == Ref(c.image, Slice0(i.sha, ShortLen))
    IN  retagLatest(c.image, from) \o restartCompose(c)

Program ==
    IF inv.entry = "deploy" THEN DeployProgram(cfg, inv)
    ELSE IF inv.entry = "hook" THEN HookProgram(cfg, inv)
    ELSE RollbackProgram(cfg, inv)

\* the log() line written right before a command is issued ("" if none)
LogBefore(entry, op) ==
    IF entry = "deploy" THEN
        CASE op = "build" -> "building"
          [] op = "migrate" -> "running migrations"
          [] op = "pull" -> "retagging latest"
          [] op = "cpull" -> "restarting compose"
          [] op = "health" -> "waiting for health"
          [] OTHER -> ""
    ELSE IF entry = "hook" THEN
        CASE op = "build" -> "Building"
          [] OTHER -> ""
    ELSE
        CASE op = "pull" -> "retagging"
          [] op = "cpull" -> "restarting compose"
          [] op = "health" -> "waiting for health"
          [] OTHER -> ""

\* the line written once waitForHealthy returned
SuccessLine(entry) ==
    IF entry = "deploy" THEN "deploy complete"
    ELSE IF entry = "hook" THEN "Deploy complete"
    ELSE "rollback complete"

Logged(o, line) == IF line = "" THEN o ELSE Append(o, line)

\* variant of Err: the error does not name the command
ErrWithoutCommand(kind, text, op, detail) ==
    [kind |-> kind, text |-> text, op |-> "", detail |-> << >>]

\* the error thrown: execa's names the command and its arguments in its message
Err(kind, text, op, detail) == [kind |-> kind, text |-> text, op |-> op, detail |-> detail]

\* variant of Throw: the catch prints the error and lets the process end
ThrowWithoutExit(e) ==
    /\ pc' = "failed"
    /\ failure' = e
    /\ exit' = "0"

\* a rejection reaches prog.parseAsync().catch: console.error, process.exit(1)
Throw(e) ==
    /\ pc' = "failed"
    /\ failure' = e
    /\ exit' = "1"

\* variant of Start: a config that cannot be loaded is used as it is
StartWithoutValidation ==
    /\ pc = "load"
    /\ IF inv.entry = "hook" /\ inv.hook /\ HeadIndex(inv.updates) = 0 THEN
           /\ pc' = "skipped"
           /\ exit' = "0"
           /\ UNCHANGED <<cfg, stage, failure>>
       ELSE IF inv.entry = "hook" /\ inv.app = NoApp THEN
           /\ Throw(IF inv.hook
                    THEN Err("ReferenceError", "inferAppFromGitDir is not defined", "load", << >>)
                    ELSE Err("Error", "need --app", "load", << >>))
           /\ UNCHANGED <<cfg, stage>>
       ELSE
           /\ cfg' = cfgFile
           /\ pc' = "call"
           /\ stage' = 1
           /\ UNCHANGED <<failure, exit>>
    /\ UNCHANGED <<invVars, status, cmds, out, worldVars, now, healthVars>>

\* the action callback up to its first external command
Start ==
    /\ pc = "load"
    /\ IF inv.entry = "hook" /\ inv.hook /\ HeadIndex(inv.updates) = 0 THEN
           \* if (!head) return;
           /\ pc' = "skipped"
           /\ exit' = "0"
           /\ UNCHANGED <<cfg, stage, failure>>
       ELSE IF inv.entry = "hook" /\ inv.app = NoApp THEN
           \* inferAppFromGitDir is not defined (hook), or throw new Error("need --app")
           /\ Throw(IF inv.hook
                    THEN Err("ReferenceError", "inferAppFromGitDir is not defined", "load", << >>)
                    ELSE Err("Error", "need --app", "load", << >>))
           /\ UNCHANGED <<cfg, stage>>
       ELSE IF cfgFile = NoFile THEN
           \* loadConfig: readFile or ConfigSchema.parse throws
           /\ Throw(Err("Error", "config", "load", << >>))
           /\ UNCHANGED <<cfg, stage>>
       ELSE
           /\ cfg' = cfgFile
           /\ pc' = "call"
           /\ stage' = 1
           /\ UNCHANGED <<failure, exit>>
    /\ UNCHANGED <<invVars, status, cmds, out, worldVars, now, healthVars>>

(***************************************************************************)
(* What the external commands do to the registry and to the host           *)
(***************************************************************************)
Range(q) == {q[k] : k \in 1..Len(q)}

\* the image in compose.yml, written by `hl init`: ${opts.image}:latest
ComposeImage == Ref(ImageRepo, S_latest)

\* docker rejects a reference that is not a valid repository name
ValidRef(r) == r.repo # ObjectObject

\* a command can exit with status 0 only if what it reads exists
CanSucceed(c) ==
    CASE c.op = "build" -> TRUE
      [] c.op = "migrate" -> Has(registry, c.refs[1]) \/ Has(localImg, c.refs[1])
      [] c.op = "pull" -> Has(registry, c.refs[1])
      [] c.op = "tag" -> Has(localImg, c.refs[1]) /\ ValidRef(c.refs[2])
      [] c.op = "push" -> Has(localImg, c.refs[1]) /\ ValidRef(c.refs[1])
      [] c.op = "cpull" -> Has(registry, ComposeImage)
      [] c.op = "cup" -> Has(localImg, ComposeImage)

\* buildx --push pushes every -t tag; a failed build may have pushed some of them
RegistryAfter(c, ok, pushed) ==
    CASE c.op = "build" ->
            PutAll(registry, IF ok THEN Range(c.refs) ELSE pushed, Img(ShaOf(inv)))
      [] c.op = "push" /\ ok -> Put(registry, c.refs[1], localImg[c.refs[1]])
      [] OTHER -> registry

LocalAfter(c, ok) ==
    CASE c.op = "pull" /\ ok -> Put(localImg, c.refs[1], registry[c.refs[1]])
      [] c.op = "tag" /\ ok -> Put(localImg, c.refs[2], localImg[c.refs[1]])
      [] c.op = "cpull" /\ ok -> Put(localImg, ComposeImage, registry[ComposeImage])
      [] OTHER -> localImg

RunningAfter(c, ok) ==
    IF c.op = "cup" /\ ok THEN localImg[ComposeImage] ELSE running

(***************************************************************************)
(* Call and Exit: one `await execa(...)`                                   *)
(***************************************************************************)
\* variants of Awaits: one call is made without await
AwaitsAllButMigrate(op) == op # "migrate"

AwaitsAllButUp(op) == op # "cup"

\* every call of the handlers is awaited
Awaits(op) == TRUE

\* variant of Rejects: the migration is run with reject: false
RejectsUnlessMigrate(c, ok) == ~ok /\ c.op # "migrate"

\* variant of Rejects: compose up is run with reject: false
RejectsUnlessUp(c, ok) == ~ok /\ c.op # "cup"

\* execa rejects its promise when the command exits with a status other than 0
Rejects(c, ok) == ~ok

\* the commands issued and not yet exited
inflight == {k \in 1..Len(status) : status[k] = "inflight"}

\* the handler's position after the command at index k exited with 0
Advance(k) ==
    /\ stage' = k + 1
    /\ pc' = IF k + 1 > Len(Program) THEN "health" ELSE "call"

Call ==
    /\ pc = "call"
    /\ LET c == Program[stage]
       IN  /\ out' = Logged(out, LogBefore(inv.entry, c.op))
           /\ cmds' = Append(cmds, c)
           /\ status' = Append(status, "inflight")
           /\ IF Awaits(c.op)
              THEN pc' = "await" /\ stage' = stage
              ELSE Advance(stage)
    /\ UNCHANGED <<invVars, cfg, failure, exit, worldVars, now, healthVars>>

\* the command at index k of cmds exits; the handler awaiting it resumes or throws
ExitCmd(k, ok, pushed) ==
    /\ k \in inflight
    /\ LET c == cmds[k]
       IN  /\ ok => CanSucceed(c)
           /\ registry' = RegistryAfter(c, ok, pushed)
           /\ localImg' = LocalAfter(c, ok)
           /\ running' = RunningAfter(c, ok)
           /\ status' = [status EXCEPT ![k] = IF ok THEN "0" ELSE "nonzero"]
           /\ IF pc = "await" /\ stage = k
              THEN IF Rejects(c, ok)
                   THEN Throw(Err("ExecaError", "Command failed", c.op, c.refs))
                        /\ UNCHANGED stage
                   ELSE Advance(k) /\ UNCHANGED <<failure, exit>>
              ELSE UNCHANGED <<pc, stage, failure, exit>>
    /\ UNCHANGED <<invVars, cfg, cmds, out, now, healthVars>>

ExitOk == \E k \in inflight : ExitCmd(k, TRUE, {})

ExitFail ==
    \E k \in inflight :
        \E pushed \in (IF cmds[k].op = "build" THEN SUBSET Range(cmds[k].refs) ELSE {{}}) :
            /\ cmds[k].op = "build" => pushed # Range(cmds[k].refs)
            /\ ExitCmd(k, FALSE, pushed)

(***************************************************************************)
(* lib/health.ts: waitForHealthy and ping                                  *)
(***************************************************************************)
\* req.setTimeout(3000, ...)
ReqTimeoutMs == 3000

PollStepMs == 150
MaxPollSteps == 3

\* how long a ping may take to resolve: some steps, or up to the socket timeout
PollDurations == {k * PollStepMs : k \in 0..MaxPollSteps} \cup {ReqTimeoutMs}

Statuses == {199, 200, 399, 400, 500}

\* variant of PingOutcomes: a request that is not answered never ends
PingOutcomesNever == {}

\* a response with a status, an error, or the 3000 ms timeout of the request
PingOutcomes ==
    {[kind |-> "status", status |-> st] : st \in Statuses}
    \cup {[kind |-> "error", status |-> 0], [kind |-> "timeout", status |-> 0]}

\* how a ping ended, as waitForHealthy's caller would describe it
OutcomeKind(o) ==
    IF o.kind = "status"
    THEN (IF o.status >= 200 /\ o.status < 400 THEN "healthy" ELSE "unhealthy")
    ELSE o.kind

\* variant of SleepsAfter: the sleep comes before the test of ok
SleepsAlways(ok) == TRUE

\* if (ok) return; comes before the interval sleep
SleepsAfter(ok) == ~ok

\* variant of PingOk: the upper bound is inclusive
PingOkUpTo400(o) == o.kind = "status" /\ o.status >= 200 /\ o.status <= 400

\* resolve(res.statusCode >= 200 && res.statusCode < 400); error and timeout resolve(false)
PingOk(o) == o.kind = "status" /\ o.status >= 200 /\ o.status < 400

\* variant of SleepMs: the sleep does not use the interval
SleepMsShort(i) == 1

\* setTimeout(r, intervalMs): Node runs a timer of less than 1 ms after 1 ms
SleepMs(i) == IF i < 1 THEN 1 ELSE i

\* the arguments the handler passes to waitForHealthy: url, timeout, interval
HealthArgs(entry, c) ==
    IF entry = "hook"
    THEN <<c.health.url, Undefined, Undefined>>
    ELSE <<c.health.url, c.health.timeout, c.health.interval>>

BadDurationError(s) ==
    IF s = Undefined
    THEN Err("TypeError", "Cannot read properties of undefined", "health", <<s>>)
    ELSE Err("Error", "bad duration", "health", <<s>>)

TimeoutError(url) == Err("Error", "health check timed out", "health", <<url>>)

\* variants of LoopCondition: start is forgotten; the bound is inclusive
LoopConditionNoStart(t, st, tmo) == t < tmo

LoopConditionInclusive(t, st, tmo) == t - st <= tmo

\* variant of LoopCondition: the loop is left after the first ping
LoopConditionFirstOnly(t, st, tmo) == t = st /\ t - st < tmo

\* while (Date.now() - start < timeoutMs)
LoopCondition(t, st, tmo) == t - st < tmo

\* the top of the loop at time t: the next ping is issued, or the gate throws
LoopTop(t, st, tmo, url) ==
    IF LoopCondition(t, st, tmo)
    THEN /\ hpc' = "ping"
         /\ polls' = polls + 1
         /\ pc' = "gate"
         /\ UNCHANGED <<failure, exit>>
    ELSE /\ hpc' = "thrown"
         /\ polls' = polls
         /\ Throw(TimeoutError(url))

\* log("waiting for health"); waitForHealthy(...) up to its first await
HealthEnter ==
    /\ pc = "health"
    /\ out' = Logged(out, LogBefore(inv.entry, "health"))
    /\ LET a == HealthArgs(inv.entry, cfg)
           t == parseDuration(a[2])
           i == parseDuration(a[3])
       IN  IF ~t.ok \/ ~i.ok THEN
               /\ Throw(BadDurationError(IF ~t.ok THEN a[2] ELSE a[3]))
               /\ hpc' = "thrown"
               /\ UNCHANGED <<start, timeoutMs, intervalMs, polls>>
           ELSE
               /\ timeoutMs' = t.ms
               /\ intervalMs' = i.ms
               /\ start' = now
               /\ LoopTop(now, now, t.ms, a[1])
    /\ UNCHANGED <<invVars, cfg, stage, status, cmds, worldVars, now, sleeps, lastPoll, seen>>

\* the ping resolves after d ms: return on ok, else start the interval sleep
PingResolve(o, d) ==
    /\ hpc = "ping"
    /\ o.kind = "timeout" => d = ReqTimeoutMs
    /\ now' = now + d
    /\ lastPoll' = [kind |-> o.kind, status |-> o.status, ms |-> d]
    /\ seen' = seen \cup {OutcomeKind(o)}
    /\ IF SleepsAfter(PingOk(o))
       THEN /\ hpc' = "sleep"
            /\ sleeps' = sleeps + 1
            /\ UNCHANGED <<out, pc, exit>>
       ELSE /\ hpc' = "returned"
            /\ out' = Append(out, SuccessLine(inv.entry))
            /\ pc' = "done"
            /\ exit' = "0"
            /\ UNCHANGED sleeps
    /\ UNCHANGED <<invVars, cfg, stage, status, cmds, failure, worldVars,
                   start, timeoutMs, intervalMs, polls>>

Poll == \E o \in PingOutcomes, d \in PollDurations : PingResolve(o, d)

\* the interval timer fires and the loop condition is evaluated again
SleepDone ==
    /\ hpc = "sleep"
    /\ now' = now + SleepMs(intervalMs)
    /\ LoopTop(now', start, timeoutMs, HealthArgs(inv.entry, cfg)[1])
    /\ UNCHANGED <<invVars, cfg, stage, status, cmds, out, worldVars,
                   start, timeoutMs, intervalMs, sleeps, lastPoll, seen>>

(***************************************************************************)
(* The specification                                                       *)
(***************************************************************************)
Next ==
    \/ Start
    \/ Call
    \/ ExitOk
    \/ ExitFail
    \/ HealthEnter
    \/ Poll
    \/ SleepDone

Spec == Init /\ [][Next]_vars

(***************************************************************************)
(* Fairness: Node's event loop runs every settled promise, every expired   *)
(* timer and every socket event, and every external command and HTTP       *)
(* request here is one the environment ends (exit, response, error or the  *)
(* 3000 ms socket timeout).                                                *)
(***************************************************************************)
LiveSpec ==
    /\ Spec
    /\ WF_vars(Start) /\ WF_vars(Call) /\ WF_vars(ExitOk \/ ExitFail)
    /\ WF_vars(HealthEnter) /\ WF_vars(Poll) /\ WF_vars(SleepDone)

(***************************************************************************)
(* Vocabulary of the properties                                            *)
(***************************************************************************)
IsDeploy == inv.entry \in {"deploy", "hook"}

Loaded == cfg # NoCfg

\* the command op was issued / has exited with status 0 / with another status
Issued(op) == \E k \in 1..Len(cmds) : cmds[k].op = op

ExitedOk(op) == \E k \in 1..Len(cmds) : cmds[k].op = op /\ status[k] = "0"

ExitedBad(op) == \E k \in 1..Len(cmds) : cmds[k].op = op /\ status[k] = "nonzero"

OpsIssued == [k \in 1..Len(cmds) |-> cmds[k].op]

IsPrefix(p, q) == Len(p) <= Len(q) /\ SubSeq(q, 1, Len(p)) = p

LatestRef == Ref(ImageRepo, S_latest)

\* operations of the invocation in progress: commands, and the ping of the gate
InProgress == Cardinality(inflight) + (IF hpc = "ping" THEN 1 ELSE 0)

DeployOrder == <<"build", "migrate", "pull", "tag", "push", "cpull", "cup">>

RollbackOrder == <<"pull", "tag", "push", "cpull", "cup">>

GateEntered == hpc # "idle"

(***************************************************************************)
(* C1: while Migrate has not exited with 0, the registry's latest does not *)
(* reference the image this deploy built; and once Migrate failed, latest  *)
(* references what it referenced before the deploy.                        *)
(* The code breaks it: Build itself pushes the latest tag.                 *)
(***************************************************************************)
C1_LatestNotNewBeforeMigrate ==
    (IsDeploy /\ Loaded) =>
        /\ ~ExitedOk("migrate") => Get(registry, LatestRef) # Img(ShaOf(inv))
        /\ ExitedBad("migrate") => Get(registry, LatestRef) = Get(RegistryBefore, LatestRef)

C3_MigrateOnShaTag ==
    \A k \in 1..Len(cmds) :
        cmds[k].op = "migrate" =>
            LET r == cmds[k].refs[1]
                sha == ShaOf(inv)
            IN  /\ Len(cmds[k].refs) = 1
                /\ r.repo = cfg.image
                /\ r.tag = SubSeq(sha, 1, IF Len(sha) < 7 THEN Len(sha) ELSE 7)
                /\ r # Ref(cfg.image, S_latest)
                /\ cmds[1].op = "build" /\ r \in Range(cmds[1].refs) /\ status[1] = "0"
                /\ Get(registry, r) = Img(sha)
                /\ cmds[k].network = cfg.network

C3_Witness ==
    /\ inv.entry = "deploy" /\ inv.sha = ShaNew
    /\ ExitedOk("migrate")
    /\ cmds[2].refs = <<Ref(ImageRepo, <<"a", "b", "c", "1", "2", "3", "d">>)>>

(***************************************************************************)
(* C4: a command that exits with a status other than 0 is the last command *)
(* the invocation issues, the invocation is failed and its health gate is  *)
(* never entered; after a failed Migrate no pull, tag, push, compose pull  *)
(* or compose up is issued. A failed gate leaves the invocation failed.    *)
(***************************************************************************)
C4_FailureHalts ==
    /\ \A k \in 1..Len(cmds) :
          status[k] = "nonzero" =>
              /\ k = Len(cmds)
              /\ pc = "failed" /\ failure.op = cmds[k].op
              /\ ~GateEntered
    /\ ExitedBad("migrate") =>
          \A op \in {"pull", "tag", "push", "cpull", "cup"} : ~Issued(op)
    /\ hpc = "thrown" => pc = "failed" /\ failure.op = "health"
    /\ pc = "failed" => exit = "1"

C4_Witness ==
    \/ inv.entry = "deploy" /\ ExitedBad("migrate") /\ pc = "failed"
    \/ inv.entry = "rollback" /\ ExitedBad("cpull") /\ pc = "failed"

C6_RestartAfterRetag ==
    \A k \in 1..Len(cmds) :
        cmds[k].op \in {"cpull", "cup"} =>
            \E a, b, c \in 1..(k - 1) :
                /\ a < b /\ b < c
                /\ cmds[a].op = "pull" /\ cmds[b].op = "tag" /\ cmds[c].op = "push"
                /\ status[a] = "0" /\ status[b] = "0" /\ status[c] = "0"
                /\ cmds[c].refs = <<Ref(cfg.image, S_latest)>>
                /\ Get(registry, Ref(cfg.image, S_latest)) = Get(registry, cmds[a].refs[1])

C6_Witness ==
    \/ inv.entry = "deploy" /\ Issued("cup") /\ inflight # {}
    \/ inv.entry = "rollback" /\ Issued("cpull") /\ inflight # {}

(***************************************************************************)
(* C7: waitForHealthy returns only when a ping of its own got a response   *)
(* with 200 <= status < 400: never after no ping, never when its pings     *)
(* only had errors, timeouts or other statuses.                            *)
(***************************************************************************)
C7_FailsClosed ==
    (hpc = "returned" \/ pc = "done") =>
        /\ polls >= 1
        /\ lastPoll.kind = "status" /\ lastPoll.status >= 200 /\ lastPoll.status < 400
        /\ seen \cap {"healthy"} # {}

C7_Witness ==
    /\ hpc = "returned" /\ lastPoll.status = 399
    /\ polls >= 3 /\ seen = {"healthy", "unhealthy", "error"}

\* both duration strings given to the gate are valid, so the gate starts
GateStarts ==
    /\ Loaded
    /\ parseDuration(HealthArgs(inv.entry, cfg)[2]).ok
    /\ parseDuration(HealthArgs(inv.entry, cfg)[3]).ok

TimedOut == hpc = "thrown" /\ GateStarts

Elapsed == now - start

C9_FailsWithinOneInterval ==
    (TimedOut /\ seen \subseteq {"unhealthy"}) =>
        /\ Elapsed >= timeoutMs
        /\ Elapsed < timeoutMs + intervalMs

(***************************************************************************)
(* C9 amended: against such an endpoint the gate throws at an elapsed time *)
(* t, timeout <= t < timeout + interval + d, where d <= 3000 ms is the     *)
(* time its last ping took (an interval of 0 sleeps 1 ms).                 *)
(***************************************************************************)
C9_FailsWithinIntervalPlusPoll ==
    (TimedOut /\ seen \subseteq {"unhealthy"}) =>
        /\ Elapsed >= timeoutMs
        /\ Elapsed < timeoutMs + (IF intervalMs = 0 THEN 1 ELSE intervalMs) + lastPoll.ms
        /\ lastPoll.ms <= 3000
        /\ polls = 0 => Elapsed = 0

C9_Witness ==
    /\ TimedOut /\ seen = {"unhealthy"}
    /\ timeoutMs = 2000 /\ intervalMs = 500 /\ Elapsed >= 2500

(***************************************************************************)
(* C10: no time passes and no sleep is started before the first ping, and  *)
(* a healthy ping is followed by the return, never by a sleep: a gate      *)
(* whose first ping is healthy returns having slept not at all.            *)
(***************************************************************************)
C10_NoSleepWhenHealthy ==
    /\ (hpc = "ping" /\ polls = 1) => sleeps = 0 /\ now = start
    /\ seen \cap {"healthy"} # {} => hpc = "returned" /\ sleeps = polls - 1
    /\ (hpc = "returned" /\ polls = 1) => sleeps = 0 /\ Elapsed = lastPoll.ms

C10_Witness == hpc = "returned" /\ polls = 1 /\ sleeps = 0 /\ pc = "done"

\* the gate ended: waitForHealthy returned or threw
GateEnded == hpc \in {"returned", "thrown"}

(***************************************************************************)
(* C11 as stated: a gate whose timeout is below its interval, timeout 0    *)
(* included, issues exactly one ping, and throws if that ping is unhealthy.*)
(***************************************************************************)
C11_OnePollBelowInterval ==
    (GateStarts /\ GateEntered /\ timeoutMs < intervalMs) =>
        /\ polls <= 1
        /\ GateEnded => polls = 1
        /\ hpc = "thrown" => seen \cap {"healthy"} = {}

(***************************************************************************)
(* C11 amended: a gate with 0 < timeout < interval issues exactly one      *)
(* ping, returns if it is healthy and throws if it is not; a gate with     *)
(* timeout 0 issues no ping and throws at once.                            *)
(***************************************************************************)
C11_OnePollUnlessTimeoutZero ==
    (GateStarts /\ GateEntered /\ timeoutMs < intervalMs) =>
        /\ timeoutMs > 0 =>
              /\ polls = 1
              /\ hpc = "thrown" => seen \cap {"healthy"} = {} /\ sleeps = 1
              /\ hpc = "returned" => seen = {"healthy"}
        /\ timeoutMs = 0 => polls = 0 /\ hpc = "thrown" /\ Elapsed = 0

C11_Witness ==
    /\ timeoutMs = 500 /\ intervalMs = 2000
    /\ hpc = "thrown" /\ polls = 1 /\ seen = {"unhealthy"}

IsRollback == inv.entry = "rollback"

\* the command of cmds with the given operation (one that was issued)
CmdOf(op) == cmds[CHOOSE k \in 1..Len(cmds) : cmds[k].op = op]

\* Retag, Restart, Health and Done in this order, without Build or Migrate
RollbackStagesInOrder ==
    /\ IsPrefix(OpsIssued, RollbackOrder)
    /\ ~Issued("build") /\ ~Issued("migrate")
    /\ \A k \in 2..Len(cmds) : status[k - 1] = "0"
    /\ InProgress <= 1
    /\ GateEntered =>
          /\ OpsIssued = RollbackOrder
          /\ \A k \in 1..Len(cmds) : status[k] = "0"
    /\ pc = "done" <=> hpc = "returned"
    /\ pc = "done" => out[Len(out)] = "rollback complete"

(***************************************************************************)
(* C12 as stated: a rollback runs Retag, Restart, Health, Done in this     *)
(* order, never Build or Migrate, and its Retagger pulls and promotes      *)
(* <image>:<target reference>, the reference as the operator gave it.      *)
(***************************************************************************)
C12_RollbackPromotesTarget ==
    IsRollback =>
        /\ RollbackStagesInOrder
        /\ Issued("pull") => CmdOf("pull").refs = <<Ref(cfg.image, inv.sha)>>

(***************************************************************************)
(* C12 amended: a rollback runs Retag, Restart, Health, Done in this       *)
(* order, never Build or Migrate, and its Retagger pulls                   *)
(* <image>:<first 7 characters of the target reference>, tags it as        *)
(* <image>:latest and pushes <image>:latest.                               *)
(***************************************************************************)
C12_RollbackPromotesShortTarget ==
    IsRollback =>
        /\ RollbackStagesInOrder
        /\ Issued("pull") =>
              CmdOf("pull").refs = <<Ref(cfg.image, SubSeq(inv.sha, 1, 7))>>
        /\ Issued("tag") =>
              CmdOf("tag").refs = <<CmdOf("pull").refs[1], Ref(cfg.image, S_latest)>>
        /\ Issued("push") => CmdOf("push").refs = <<Ref(cfg.image, S_latest)>>
        /\ ExitedOk("push") =>
              Get(registry, LatestRef) = Get(registry, CmdOf("pull").refs[1])

C12_Witness ==
    /\ IsRollback /\ inv.sha = ShaPrev /\ pc = "done"
    /\ Get(registry, LatestRef) = Img(ShaPrev)
    /\ running = Img(ShaPrev)

\* the tags other than latest that the previous deploys pushed and that are
\* still in the registry
PushedTags == {r \in DOMAIN RegistryBefore : r.repo = ImageRepo /\ r.tag # S_latest}

\* the target of the rollback is the tag part of a pushed tag
TargetsPushedTag == IsRollback /\ Ref(ImageRepo, inv.sha) \in PushedTags

(***************************************************************************)
(* C13 as stated: a rollback whose target is the tag part of a tag T that  *)
(* a previous deploy pushed (shaTag or branchShaTag) pulls exactly T, and  *)
(* after its push latest references the image of T.                        *)
(***************************************************************************)
C13_RollbackToAnyPushedTag ==
    (TargetsPushedTag /\ Issued("pull")) =>
        /\ CmdOf("pull").refs[1] = Ref(ImageRepo, inv.sha)
        /\ ExitedOk("push") =>
              Get(registry, LatestRef) = RegistryBefore[Ref(ImageRepo, inv.sha)]

(***************************************************************************)
(* C13 amended: a rollback whose target is the short sha of a pushed       *)
(* shaTag T pulls exactly T and after its push latest references the image *)
(* of T.  A target of more than 7 characters, a branchShaTag's tag part    *)
(* included, is cut to its first 7 characters: the pull is of that tag,    *)
(* not of T, and when no such tag exists the rollback fails at the pull    *)
(* and leaves the registry as it was.                                      *)
(***************************************************************************)
C13_RollbackToPushedShaTag ==
    (TargetsPushedTag /\ Issued("pull")) =>
        LET T == Ref(ImageRepo, inv.sha)
            cut == Ref(ImageRepo, SubSeq(inv.sha, 1, 7))
        IN  /\ CmdOf("pull").refs[1] = cut
            /\ Len(inv.sha) = 7 =>
                  /\ cut = T
                  /\ ExitedOk("push") => Get(registry, LatestRef) = RegistryBefore[T]
            /\ (Len(inv.sha) > 7 /\ ~Has(RegistryBefore, cut)) =>
                  /\ ~ExitedOk("pull")
                  /\ ~Issued("tag")
                  /\ registry = RegistryBefore
                  /\ ExitedBad("pull") => pc = "failed"

C13_Witness ==
    /\ IsRollback /\ inv.sha = Slice0(ShaPrev, ShortLen)
    /\ ExitedOk("push")
    /\ Get(registry, LatestRef) = Img(ShaPrev)
    /\ Get(RegistryBefore, LatestRef) = Img(ShaCur)

(***************************************************************************)
(* C14: the compose pull and the compose up of a restart are given every   *)
(* compose file that is in the app's directory when the restart runs.      *)
(***************************************************************************)
C14_RestartUsesEveryFragment ==
    \A k \in 1..Len(cmds) :
        cmds[k].op \in {"cpull", "cup"} => Range(cmds[k].files) = appDir

RetagOrder == <<"pull", "tag", "push">>

\* the Retagger's commands among those issued, in the order of their issue
RetagIssued == SelectSeq(OpsIssued, LAMBDA o : o \in Range(RetagOrder))

(***************************************************************************)
(* C15: retagLatest issues pull of the source tag, then tag of it as       *)
(* <image>:latest, then push of <image>:latest, each only after the one    *)
(* before exited with 0; after a failed pull or tag no push is issued, and *)
(* no step taken between the issue of the pull and the issue of the push   *)
(* changes what the registry's latest references.                          *)
(***************************************************************************)
C15_RetagStepsInOrder ==
    /\ [](/\ IsPrefix(RetagIssued, RetagOrder)
          /\ Issued("tag") =>
                /\ ExitedOk("pull")
                /\ CmdOf("tag").refs[1] = CmdOf("pull").refs[1]
                /\ CmdOf("tag").refs[2].tag = S_latest
                /\ inv.entry # "hook" => CmdOf("tag").refs[2] = Ref(cfg.image, S_latest)
          /\ Issued("push") =>
                /\ ExitedOk("tag")
                /\ CmdOf("push").refs = <<CmdOf("tag").refs[2]>>
          /\ (ExitedBad("pull") \/ ExitedBad("tag")) => ~Issued("push") /\ pc = "failed")
    /\ [][(Issued("pull") /\ ~Issued("push")) =>
              Get(registry', LatestRef) = Get(registry, LatestRef)]_vars

C15_Witness ==
    /\ ExitedOk("pull") /\ ExitedBad("tag") /\ ~Issued("push") /\ pc = "failed"
    /\ Get(localImg, LatestRef) # Get(localImg, CmdOf("pull").refs[1])

(***************************************************************************)
(* Running the command again.  Every invocation is a new process: it       *)
(* starts from the handler's initial state, on the registry, the local     *)
(* image store and the stack as the run before left them.                  *)
(***************************************************************************)
MaxRuns == 2

\* the step at which the retag of this run ended
RetagEnd ==
    IF ExitedOk("push") THEN "ok"
    ELSE IF ExitedBad("push") THEN "push"
    ELSE IF ExitedBad("tag") THEN "tag"
    ELSE "pull"

\* the operator runs the same command again after a run that reached the retag
Rerun ==
    /\ pc \in {"done", "failed"}
    /\ Issued("pull")
    /\ inflight = {}
    /\ runs < MaxRuns
    /\ runs' = runs + 1
    /\ prev' = RetagEnd
    /\ cfg' = NoCfg
    /\ pc' = "load"
    /\ stage' = 0
    /\ status' = << >>
    /\ cmds' = << >>
    /\ out' = << >>
    /\ failure' = NoError
    /\ exit' = Running
    /\ start' = 0
    /\ timeoutMs' = 0
    /\ intervalMs' = 0
    /\ hpc' = "idle"
    /\ polls' = 0
    /\ sleeps' = 0
    /\ lastPoll' = NoPoll
    /\ seen' = {}
    /\ UNCHANGED <<inv, cfgFile, appDir, other, sec, worldVars, now>>

\* the runs considered: a gate of at most one poll, so that few clock values
\* separate the runs
RetryInit ==
    /\ Init
    /\ cfgFile \in {ConfigOf(<<D_0ms, D_500ms>>), ConfigOf(<<D_500ms, D_2s>>)}
    /\ appDir = {"compose.yml"}
    /\ now = 0

RetryNext == Next \/ Rerun

RetrySpec == RetryInit /\ [][RetryNext]_vars

\* the registry after one successful deploy or rollback of this invocation
RegistryAfterOneRun ==
    IF IsRollback
    THEN Put(RegistryBefore, LatestRef,
             RegistryBefore[Ref(ImageRepo, Slice0(inv.sha, ShortLen))])
    ELSE LET short == Slice0(ShaOf(inv), ShortLen)
         IN  PutAll(RegistryBefore,
                    {Ref(ImageRepo, short),
                     Ref(ImageRepo, BranchOf(inv) \o S_dash \o short),
                     LatestRef},
                    Img(ShaOf(inv)))

(***************************************************************************)
(* C16: in the first run and in a run made again with the same source tag  *)
(* after a run whose retag succeeded or failed at pull, tag or push, once  *)
(* the push exited with 0 the registry's latest and the local latest       *)
(* reference the image of the source tag, and the registry is the one that *)
(* a single successful run leaves.                                         *)
(***************************************************************************)
C16_RetagIdempotent ==
    ExitedOk("push") =>
        LET src == CmdOf("pull").refs[1]
        IN  /\ Has(registry, src)
            /\ Get(registry, LatestRef) = Get(registry, src)
            /\ Get(localImg, LatestRef) = Get(registry, src)
            /\ registry = RegistryAfterOneRun

C16_Witness ==
    /\ runs = 2 /\ prev = "push" /\ IsRollback
    /\ ExitedOk("push")
    /\ Get(registry, LatestRef) = Img(ShaPrev)

\* the step is the exit with 0 of a command with the given operation
ExitsOkIn(op) ==
    \E k \in 1..Len(cmds) :
        cmds[k].op = op /\ status[k] = "inflight" /\ status'[k] = "0"

(***************************************************************************)
(* C17: every step of a deploy or rollback that changes the image the      *)
(* registry's latest references is the successful exit of the Retagger's   *)
(* push.                                                                   *)
(***************************************************************************)
C17_LatestWrittenOnlyByPush ==
    [][Get(registry', LatestRef) # Get(registry, LatestRef) => ExitsOkIn("push")]_vars

\* how many of the commands issued have the given operation
TimesIssued(op) == Cardinality({k \in 1..Len(cmds) : cmds[k].op = op})

(***************************************************************************)
(* C18: within one invocation each of build, migrate, pull, tag, push,     *)
(* compose pull and compose up is issued at most once, whatever its exit   *)
(* status, and after a command that exited with a status other than 0 no   *)
(* command follows; only the ping of the health gate is issued repeatedly. *)
(***************************************************************************)
C18_NothingRetried ==
    /\ \A op \in Range(DeployOrder) : TimesIssued(op) <= 1
    /\ \A k \in 1..Len(cmds) : cmds[k].op \in Range(DeployOrder)
    /\ \A k \in 1..Len(cmds) : status[k] = "nonzero" => k = Len(cmds)
    /\ polls > 1 => \A op \in Range(Program) : TimesIssued(op.op) = 1

C18_Witness ==
    /\ inv.entry = "deploy" /\ pc = "done"
    /\ polls >= 3
    /\ \A op \in Range(DeployOrder) : TimesIssued(op) = 1

\* Restart or Health failed
RestartOrHealthFailed == ExitedBad("cpull") \/ ExitedBad("cup") \/ hpc = "thrown"

(***************************************************************************)
(* C19: once compose pull, compose up or the health gate failed, the       *)
(* invocation is failed with nothing in flight, its retag was made once    *)
(* and is the last registry operation, the registry's latest references    *)
(* the image of the tag it promoted, and no step issues a command or       *)
(* changes the registry, the local image store or the stack any more.      *)
(***************************************************************************)
C19_NoCompensation ==
    /\ [](RestartOrHealthFailed =>
            /\ pc = "failed" /\ exit = "1"
            /\ inflight = {} /\ hpc \in {"idle", "thrown"}
            /\ failure.op \in {"cpull", "cup", "health"}
            /\ \A op \in Range(RetagOrder) : TimesIssued(op) = 1 /\ ExitedOk(op)
            /\ \A k \in 1..Len(cmds) :
                  cmds[k].op = "push" =>
                      \A j \in (k + 1)..Len(cmds) : cmds[j].op \in {"cpull", "cup"}
            /\ Get(registry, LatestRef) = Get(registry, CmdOf("pull").refs[1]))
    /\ [][RestartOrHealthFailed => UNCHANGED <<cmds, status, worldVars>>]_vars

C19_Witness ==
    /\ IsRollback /\ hpc = "thrown" /\ pc = "failed"
    /\ Get(RegistryBefore, LatestRef) = Img(ShaCur)
    /\ Get(registry, LatestRef) = Img(ShaPrev)
    /\ running = Img(ShaPrev)

\* the first 7 characters of a reference of at least 7 characters
First7(c) == <<c[1], c[2], c[3], c[4], c[5], c[6], c[7]>>

(***************************************************************************)
(* C20: for a commit reference c of at least 7 characters, the tags that a *)
(* deploy plans (tagFor, and the inline tags of the hook variant) and      *)
(* hands to the build are exactly repo:c[0:7], repo:branch-c[0:7] and      *)
(* repo:latest, and every later use of the sha tag in the same invocation  *)
(* (migrate, pull) is the same tag.                                        *)
(***************************************************************************)
C20_TagPlan ==
    (IsDeploy /\ Issued("build") /\ Len(ShaOf(inv)) >= 7) =>
        LET c == ShaOf(inv)
            b == BranchOf(inv)
        IN  /\ CmdOf("build").refs =
                  << [repo |-> cfg.image, tag |-> First7(c)],
                     [repo |-> cfg.image, tag |-> b \o <<"-">> \o First7(c)],
                     [repo |-> cfg.image, tag |-> <<"l", "a", "t", "e", "s", "t">>] >>
            /\ Issued("migrate") => CmdOf("migrate").refs[1] = CmdOf("build").refs[1]
            /\ Issued("pull") => CmdOf("pull").refs[1] = CmdOf("build").refs[1]

C20_Witness ==
    /\ inv.entry = "deploy" /\ inv.sha = ShaSeven /\ inv.branch = S_dev
    /\ ExitedOk("build")
    /\ Get(registry, Ref(ImageRepo, S_dev \o S_dash \o ShaSeven)) = Img(ShaSeven)

(***************************************************************************)
(* Duration strings: a rollback whose homelab.yml has the string as health *)
(* timeout or as health interval, so that waitForHealthy parses it.        *)
(***************************************************************************)
D_1m == <<"1", "m">>
D_10m == <<"1", "0", "m">>

\* strings that are digits followed by ms, s or m, with the milliseconds they denote
ValidDurations ==
    { <<D_2s, 2000>>, <<<<"4", "5", "s">>, 45000>>, <<<<"1", "0", "0", "m", "s">>, 100>>,
      <<D_1m, 60000>>, <<D_500ms, 500>>, <<D_0ms, 0>>, <<<<"0", "0", "7", "s">>, 7000>>,
      <<D_10m, 600000>>, <<D_3ms, 3>>, <<<<"0", "m">>, 0>> }

\* strings that are not
InvalidDurations ==
    { << >>, <<"2">>, <<"s">>, <<"m", "s">>, D_2h, <<"1", ".", "5", "s">>,
      <<"-", "1", "s">>, <<"+", "1", "s">>, <<" ", "2", "s">>, <<"2", "s", " ">>,
      <<"2", " ", "s">>, <<"2", "S">>, <<"2", "s", "s">>, <<"2", "m", "s", "s">>,
      <<"2", "s", "m">>, <<"s", "2">>, <<"2", "s", "2">>, <<"2", "s", "\n">>,
      <<"2", "m", "m">>, <<"2", "M", "S">>, <<"2", "0">> }

DurationInputs == {v[1] : v \in ValidDurations} \cup InvalidDurations

\* the milliseconds the string denotes (one of ValidDurations)
Denotes(d) == (CHOOSE v \in ValidDurations : v[1] = d)[2]

ParseInit ==
    /\ inv = Invocation("rollback", AppName, Slice0(ShaPrev, ShortLen), << >>, FALSE, << >>)
    /\ cfgFile \in {ConfigOf(<<D_3ms, d>>) : d \in DurationInputs}
                   \cup {ConfigOf(<<d, D_10m>>) : d \in DurationInputs}
    /\ appDir = {"compose.yml"}
    /\ runs = 1
    /\ prev = "none"
    /\ other = NoOther
    /\ sec = NoSecrets
    /\ cfg = NoCfg
    /\ pc = "load"
    /\ stage = 0
    /\ status = << >>
    /\ cmds = << >>
    /\ out = << >>
    /\ failure = NoError
    /\ exit = Running
    /\ registry = RegistryBefore
    /\ localImg = LocalBefore
    /\ running = Img(ShaCur)
    /\ now = 0
    /\ start = 0
    /\ timeoutMs = 0
    /\ intervalMs = 0
    /\ hpc = "idle"
    /\ polls = 0
    /\ sleeps = 0
    /\ lastPoll = NoPoll
    /\ seen = {}

ParseSpec == ParseInit /\ [][Next]_vars

(***************************************************************************)
(* C21: when waitForHealthy has parsed the health timeout and the health   *)
(* interval, a string of digits n followed by ms, s or m gave n, 1000 * n  *)
(* or 60000 * n milliseconds, and a string that is not of this form made   *)
(* it throw "bad duration" for that string, before any ping.               *)
(***************************************************************************)
C21_ParseDuration ==
    GateEntered =>
        LET t == cfg.health.timeout
            i == cfg.health.interval
        IN  IF t \in InvalidDurations THEN
                /\ failure = Err("Error", "bad duration", "health", <<t>>)
                /\ hpc = "thrown" /\ polls = 0
            ELSE IF i \in InvalidDurations THEN
                /\ failure = Err("Error", "bad duration", "health", <<i>>)
                /\ hpc = "thrown" /\ polls = 0
            ELSE
                /\ timeoutMs = Denotes(t)
                /\ intervalMs = Denotes(i)
                /\ failure.text # "bad duration"

C21_Witness ==
    /\ GateEntered
    /\ cfg.health.timeout = D_3ms
    /\ cfg.health.interval = <<"4", "5", "s">>
    /\ intervalMs = 45000
    /\ hpc = "thrown" /\ polls = 1 /\ now >= 45000

\* the stage of the pipeline that a command, or the gate, belongs to
StageOf(op) ==
    CASE op = "build" -> "Build"
      [] op = "migrate" -> "Migrate"
      [] op \in {"pull", "tag", "push"} -> "Retag"
      [] op \in {"cpull", "cup"} -> "Restart"
      [] op = "health" -> "Health"
      [] OTHER -> "none"

\* the pipeline started and failed
PipelineFailed == pc = "failed" /\ Loaded

SomethingFailed ==
    \/ failure # NoError
    \/ \E k \in 1..Len(cmds) : status[k] = "nonzero"
    \/ hpc = "thrown"

(***************************************************************************)
(* C23 as stated: the exit status is not 0 whenever the config load, a     *)
(* command or the gate failed, and it is 0 only when the pipeline reached  *)
(* Done.                                                                   *)
(***************************************************************************)
C23_ExitZeroOnlyWhenDone ==
    /\ SomethingFailed => exit = "1"
    /\ exit = "0" => pc = "done"

(***************************************************************************)
(* C23 amended: the exit status is not 0 whenever the config load, a       *)
(* command or the gate failed; it is 0 only when the pipeline reached      *)
(* Done, or when a deploy in hook mode found no update of a branch and     *)
(* returned without starting a pipeline.                                   *)
(***************************************************************************)
C23_ExitReflectsOutcome ==
    /\ SomethingFailed => exit = "1" /\ pc = "failed"
    /\ exit = "1" => SomethingFailed
    /\ exit = "0" => pc \in {"done", "skipped"}
    /\ pc = "done" => exit = "0" /\ hpc = "returned" /\ ~SomethingFailed
    /\ pc = "skipped" =>
          /\ exit = "0"
          /\ inv.entry = "hook" /\ inv.hook /\ HeadIndex(inv.updates) = 0
          /\ cmds = << >> /\ ~Loaded /\ ~GateEntered
    /\ pc \notin {"done", "skipped", "failed"} => exit = Running

C23_Witness ==
    /\ inv.entry = "deploy" /\ ExitedBad("build") /\ exit = "1"
    /\ Get(registry, LatestRef) = Img(ShaOf(inv))

(***************************************************************************)
(* C24: when the app's homelab.yml is missing or fails the schema, a       *)
(* deploy or rollback never issues a command or a ping and changes nothing *)
(* in the registry, the local image store or the stack; once the load was  *)
(* attempted the invocation has failed with the error of the load.         *)
(***************************************************************************)
C24_NoConfigNoPipeline ==
    cfgFile = NoFile =>
        /\ cmds = << >> /\ status = << >> /\ out = << >>
        /\ hpc = "idle" /\ polls = 0
        /\ registry = RegistryBefore /\ localImg = LocalBefore /\ running = Img(ShaCur)
        /\ ~Loaded
        /\ pc \in {"load", "failed", "skipped"}
        /\ pc = "failed" => exit = "1" /\ failure.op = "load"
        /\ (pc = "failed" /\ inv.entry # "hook") => failure.text = "config"

C24_Witness ==
    /\ cfgFile = NoFile /\ IsRollback /\ pc = "failed"
    /\ failure.text = "config" /\ cmds = << >>

(***************************************************************************)
(* Two invocations for one app.  Nothing in cli.ts or in the handlers      *)
(* keeps a second hl process from running while a first one runs: the      *)
(* second one here is a rollback, whose commands act on the same registry, *)
(* local image store and stack, and interleave with those of the first.    *)
(***************************************************************************)
OtherTargets == {Slice0(ShaPrev, ShortLen), Slice0(ShaCur, ShortLen)}

\* the commands of the second process: those of rollback.js
OtherProgram == RollbackProgram(cfgFile, [sha |-> other.sha])

\* hl rollback <app> <sha> is started; its loadConfig reads the same homelab.yml
OtherStart ==
    /\ other.pc = "idle"
    /\ cfgFile # NoFile
    /\ \E t \in OtherTargets :
          other' = [NoOther EXCEPT !.pc = "call", !.sha = t, !.stage = 1]
    /\ UNCHANGED <<inv, cfgFile, appDir, runs, prev, sec, progVars, worldVars, now, healthVars>>

\* the second process issues its next command
OtherCall ==
    /\ other.pc = "call"
    /\ other' = [other EXCEPT !.cmds = Append(@, OtherProgram[other.stage]),
                              !.status = Append(@, "inflight"),
                              !.pc = "await"]
    /\ UNCHANGED <<inv, cfgFile, appDir, runs, prev, sec, progVars, worldVars, now, healthVars>>

\* the command the second process awaits exits
OtherExit(ok) ==
    /\ other.pc = "await"
    /\ LET c == other.cmds[other.stage]
       IN  /\ ok => CanSucceed(c)
           /\ registry' = RegistryAfter(c, ok, {})
           /\ localImg' = LocalAfter(c, ok)
           /\ running' = RunningAfter(c, ok)
           /\ other' = [other EXCEPT
                  !.status[other.stage] = IF ok THEN "0" ELSE "nonzero",
                  !.stage = IF Rejects(c, ok) THEN @ ELSE @ + 1,
                  !.pc = IF Rejects(c, ok) THEN "failed"
                         ELSE IF other.stage = Len(OtherProgram) THEN "health"
                         ELSE "call"]
    /\ UNCHANGED <<inv, cfgFile, appDir, runs, prev, sec, progVars, now, healthVars>>

OtherExitOk == OtherExit(TRUE)

OtherExitFail == OtherExit(FALSE)

\* the second process's waitForHealthy returns or throws
OtherHealth ==
    /\ other.pc = "health"
    /\ \E ok \in BOOLEAN :
          other' = [other EXCEPT !.pc = IF ok THEN "done" ELSE "failed"]
    /\ UNCHANGED <<inv, cfgFile, appDir, runs, prev, sec, progVars, worldVars, now, healthVars>>

PairInit ==
    /\ Init
    /\ inv \in {Invocation("deploy", AppName, ShaNew, S_master, FALSE, << >>),
                Invocation("rollback", AppName, Slice0(ShaPrev, ShortLen), << >>, FALSE, << >>)}
    /\ cfgFile = ConfigOf(<<D_500ms, D_2s>>)
    /\ appDir = {"compose.yml"}
    /\ now = 0

PairNext ==
    \/ Next
    \/ OtherStart
    \/ OtherCall
    \/ OtherExitOk
    \/ OtherExitFail
    \/ OtherHealth

PairSpec == PairInit /\ [][PairNext]_vars

\* an invocation is in flight from its start to its end
FirstInFlight == pc \in {"call", "await", "health", "gate"}

OtherInFlight == other.pc \in {"call", "await", "health"}

(***************************************************************************)
(* C25: at no time are two invocations for the app in flight.              *)
(***************************************************************************)
C25_OneInvocationPerApp == ~(FirstInFlight /\ OtherInFlight)

\* the step is the exit with 0 of the second process's command with the operation
OtherExitsOkIn(op) ==
    /\ other.pc = "await"
    /\ other.cmds[other.stage].op = op
    /\ other'.status[other.stage] = "0"

(***************************************************************************)
(* C26: when two invocations for the app overlap, the image that the push  *)
(* of each one makes the registry's latest is the image of the source tag  *)
(* which that invocation pulled and tagged.                                *)
(***************************************************************************)
C26_EachPushesItsOwnImage ==
    [][/\ ExitsOkIn("push") =>
             Get(registry', LatestRef) = Get(registry, CmdOf("pull").refs[1])
       /\ OtherExitsOkIn("push") =>
             Get(registry', LatestRef) = Get(registry, other.cmds[1].refs[1])]_vars

(***************************************************************************)
(* C27: in a deploy, by either entry point, the Retag stage pulls the sha  *)
(* tag that the build was given and the migrations ran on, and tags and    *)
(* pushes the latest tag of the same tag set, <cfg.image>:latest.          *)
(***************************************************************************)
C27_RetagUsesTheTagSet ==
    IsDeploy =>
        /\ Issued("pull") =>
              /\ CmdOf("pull").refs = <<CmdOf("build").refs[1]>>
              /\ CmdOf("pull").refs = CmdOf("migrate").refs
        /\ Issued("tag") =>
              CmdOf("tag").refs = <<CmdOf("build").refs[1], Ref(cfg.image, S_latest)>>
        /\ Issued("push") => CmdOf("push").refs = <<Ref(cfg.image, S_latest)>>

\* the homelab.yml on disk has a health timeout or interval that is no duration
BadHealthDurations ==
    /\ cfgFile # NoFile
    /\ \/ ~parseDuration(cfgFile.health.timeout).ok
       \/ ~parseDuration(cfgFile.health.interval).ok

(***************************************************************************)
(* C28: with a health interval or timeout that is not a duration, a deploy *)
(* or rollback issues no command, and the registry and the running stack   *)
(* stay as they were.                                                      *)
(***************************************************************************)
C28_BadDurationFailsFirst ==
    BadHealthDurations =>
        /\ cmds = << >>
        /\ registry = RegistryBefore
        /\ running = Img(ShaCur)

\* the commands of a deploy (src/commands/deploy.ts) of the commit, after Migrate
DeploySuffix(c, sha) ==
    LET p == DeployProgram(c, [sha |-> sha, branch |-> S_master])
    IN  SubSeq(p, 3, Len(p))

\* the gate reads the url, the timeout and the interval of the config
GateUsesConfig ==
    /\ GateStarts /\ GateEntered =>
          /\ timeoutMs = parseDuration(cfg.health.timeout).ms
          /\ intervalMs = parseDuration(cfg.health.interval).ms
    /\ TimedOut => failure.detail = <<cfg.health.url>>

(***************************************************************************)
(* C29: the commands a rollback issues are, in order, those that a deploy  *)
(* (src/commands/deploy.ts) with the same config and the same source tag   *)
(* issues after Migrate, and the commands a deploy issues after Migrate    *)
(* are those of the rollback to its sha tag; both then run the gate on the *)
(* config's url, timeout and interval.                                     *)
(***************************************************************************)
C29_RollbackIsDeploySuffix ==
    /\ (IsRollback /\ Loaded) =>
          /\ IsPrefix(cmds, DeploySuffix(cfg, inv.sha))
          /\ GateEntered => cmds = DeploySuffix(cfg, inv.sha)
          /\ GateUsesConfig
    /\ (inv.entry = "deploy" /\ Loaded) =>
          LET rb == RollbackProgram(cfg, [sha |-> inv.sha])
              own == SubSeq(cmds, 3, Len(cmds))
          IN  /\ IsPrefix(own, rb)
              /\ GateEntered => own = rb
              /\ GateUsesConfig

C29_Witness ==
    /\ IsRollback /\ inv.sha = Slice0(ShaPrev, ShortLen) /\ pc = "done"
    /\ cmds = DeploySuffix(cfg, ShaPrev)
    /\ Len(cmds) = 5

\* in this step a ping resolves with something else than a status in [200, 400)
PollEndsUnhealthy ==
    /\ hpc = "ping" /\ hpc' # "ping"
    /\ ~(lastPoll'.kind = "status" /\ lastPoll'.status >= 200 /\ lastPoll'.status < 400)

LastPollHealthy ==
    lastPoll.kind = "status" /\ lastPoll.status >= 200 /\ lastPoll.status < 400

(***************************************************************************)
(* C31 as stated: the gate returns only on a healthy response observed     *)
(* while the elapsed time since its start is below timeout.                *)
(***************************************************************************)
C31_SuccessOnlyBelowTimeout ==
    hpc = "returned" => LastPollHealthy /\ Elapsed < timeoutMs

(***************************************************************************)
(* C31 amended: the gate returns only on a healthy response to a ping that *)
(* was issued while the elapsed time since its start was below timeout;    *)
(* the response itself may come up to 3000 ms later, after timeout has     *)
(* elapsed, and is still a success.                                        *)
(***************************************************************************)
C31_SuccessOnlyForPollBegunBelowTimeout ==
    hpc = "returned" =>
        /\ LastPollHealthy
        /\ Elapsed - lastPoll.ms < timeoutMs
        /\ lastPoll.ms <= 3000
        /\ Elapsed < timeoutMs + 3000
        /\ pc = "done" /\ failure = NoError

C31_Witness ==
    /\ hpc = "returned" /\ pc = "done"
    /\ timeoutMs = 2000 /\ Elapsed > timeoutMs
    /\ polls >= 2

\* ceil(a / b) for a >= 0 and b > 0
CeilDiv(a, b) == (a + b - 1) \div b

(***************************************************************************)
(* C32: the pings of a gate are issued one at a time, each after the ping  *)
(* before resolved and the interval sleep after it ended; every ping is    *)
(* issued at an elapsed time below timeout; for an interval above 0 there  *)
(* are at most ceil(timeout / interval) pings; with timeout 0 there is     *)
(* none.                                                                   *)
(***************************************************************************)
C32_PollsSequentialAndBounded ==
    /\ [](/\ hpc = "ping" => polls = sleeps + 1 /\ Elapsed < timeoutMs
          /\ hpc = "sleep" => polls = sleeps /\ polls >= 1
          /\ hpc \in {"returned", "thrown"} => polls \in {sleeps, sleeps + 1}
          /\ hpc = "idle" => polls = 0 /\ sleeps = 0
          /\ (GateEntered /\ GateStarts /\ intervalMs > 0) =>
                polls <= CeilDiv(timeoutMs, intervalMs)
          /\ (GateEntered /\ GateStarts /\ timeoutMs = 0) => polls = 0)
    /\ [][polls' # polls =>
             /\ polls' = polls + 1
             /\ hpc' = "ping" /\ hpc \in {"idle", "sleep"}
             /\ now' - start' < timeoutMs'
             /\ hpc = "sleep" => now' >= now + intervalMs]_vars

C32_Witness ==
    /\ timeoutMs = 2000 /\ intervalMs = 500
    /\ polls = 4 /\ hpc = "ping"

(***************************************************************************)
(* C33: a gate whose timeout and interval are valid durations, interval 0  *)
(* and timeout 0 included, and whose pings each resolve, ends: it returns  *)
(* or it throws the timeout error.                                         *)
(***************************************************************************)
C33_GateTerminates ==
    (pc = "health" /\ GateStarts) ~>
        (hpc = "returned" \/ (hpc = "thrown" /\ failure.text = "health check timed out"))

C33_Witness ==
    /\ timeoutMs = 3 /\ intervalMs = 0
    /\ hpc = "thrown" /\ polls = 3 /\ Elapsed = 3

\* the stages at which a command exited with a status other than 0 or the
\* gate threw
FailedStages ==
    {StageOf(cmds[k].op) : k \in {j \in 1..Len(cmds) : status[j] = "nonzero"}}
        \cup (IF hpc = "thrown" THEN {"Health"} ELSE {})

\* the handler returned or threw
Ended == pc \in {"done", "failed", "skipped"}

(***************************************************************************)
(* C34 as stated: every deploy and every rollback invocation eventually    *)
(* ends in Done or in a failure at exactly one stage.                      *)
(***************************************************************************)
C34_EndsInDoneOrStageFailure ==
    <>(pc = "done" \/ (pc = "failed" /\ Cardinality(FailedStages) = 1))

(***************************************************************************)
(* C34 amended: every invocation eventually ends and stays ended, with     *)
(* nothing in flight.  One whose config was loaded ends in Done with no    *)
(* failed stage or in a failure at exactly one stage, the last one it      *)
(* entered; one whose config could not be loaded fails before the first    *)
(* stage, and a hook invocation without a branch update returns without    *)
(* entering a stage.                                                       *)
(***************************************************************************)
C34_EveryInvocationEnds ==
    /\ <>[](Ended /\ InProgress = 0)
    /\ [](pc = "done" => Loaded /\ FailedStages = {})
    /\ [](pc = "failed" /\ Loaded =>
              /\ Cardinality(FailedStages) = 1
              /\ \/ hpc = "thrown"
                 \/ /\ cmds # <<>>
                    /\ FailedStages = {StageOf(cmds[Len(cmds)].op)})
    /\ [](pc = "failed" /\ ~Loaded => cmds = <<>> /\ hpc = "idle")
    /\ [](pc = "skipped" => ~Loaded /\ cmds = <<>> /\ hpc = "idle")

C34_Witness ==
    /\ pc = "failed" /\ Loaded /\ IsRollback
    /\ FailedStages = {"Restart"} /\ ExitedOk("cpull") /\ ExitedBad("cup")

\* the position in cmds of the command with the given operation (issued once)
PositionOf(op) == CHOOSE k \in 1..Len(cmds) : cmds[k].op = op

(***************************************************************************)
(* C35: restartCompose issues compose pull and then compose up, both in    *)
(* the app's directory; compose up is issued only after compose pull       *)
(* exited with status 0, and never once compose pull failed.               *)
(***************************************************************************)
C35_PullThenUpInAppDir ==
    /\ \A k \in 1..Len(cmds) :
          cmds[k].op \in {"cpull", "cup"} => cmds[k].cwd = <<HL_ROOT, cfg.app>>
    /\ Issued("cup") =>
          /\ ExitedOk("cpull")
          /\ PositionOf("cpull") < PositionOf("cup")
    /\ ExitedBad("cpull") => ~Issued("cup") /\ pc = "failed"
    /\ TimesIssued("cpull") <= 1 /\ TimesIssued("cup") <= 1

C35_Witness ==
    /\ ExitedBad("cpull") /\ pc = "failed" /\ IsDeploy
    /\ cmds[Len(cmds)].cwd = <<HL_ROOT, AppName>>

\* a commit whose first 7 characters are those of ShaNew
ShaNewTwin == First7(ShaNew) \o <<"0", "0", "0", "0", "0", "0">>

CommitRefs == {ShaNew, ShaNewTwin, First7(ShaNew), ShaTiny, << >>}

\* the two references have the same characters at the positions 1..7
SameFirst7(a, b) ==
    \A k \in 1..7 :
        /\ k <= Len(a) <=> k <= Len(b)
        /\ k <= Len(a) => a[k] = b[k]

(***************************************************************************)
(* C36: for the repository of the loaded config, tagFor gives the same     *)
(* latest tag for every commit and branch and the same three tags for two  *)
(* commit references that agree on their first 7 characters and the same   *)
(* branch; the build of a deploy is handed the tags of every reference     *)
(* that agrees with its --sha on the first 7 characters.                   *)
(***************************************************************************)
C36_TagsDependOnFirst7 ==
    (inv.entry = "deploy" /\ Loaded) =>
        /\ \A s1 \in CommitRefs, s2 \in CommitRefs, b \in Branches :
              SameFirst7(s1, s2) => tagFor(cfg, s1, b) = tagFor(cfg, s2, b)
        /\ \A s1 \in CommitRefs, s2 \in CommitRefs, b1 \in Branches, b2 \in Branches :
              /\ tagFor(cfg, s1, b1).latest = tagFor(cfg, s2, b2).latest
              /\ tagFor(cfg, s1, b1).latest = [repo |-> cfg.image, tag |-> <<"l", "a", "t", "e", "s", "t">>]
        /\ Issued("build") =>
              \A s \in CommitRefs :
                  SameFirst7(s, inv.sha) =>
                      LET tags == tagFor(cfg, s, inv.branch)
                      IN  CmdOf("build").refs = <<tags.sha, tags.branchSha, tags.latest>>

C36_Witness ==
    /\ inv.entry = "deploy" /\ inv.sha = ShaNew /\ ExitedOk("build")
    /\ ShaNewTwin # ShaNew /\ SameFirst7(ShaNewTwin, ShaNew)
    /\ CmdOf("build").refs[2] = tagFor(cfg, ShaNewTwin, inv.branch).branchSha

\* the stage a progress line names ("none" for the success lines)
StageNamedBy(line) ==
    CASE line \in {"building", "Building"} -> "Build"
      [] line = "running migrations" -> "Migrate"
      [] line \in {"retagging latest", "retagging"} -> "Retag"
      [] line = "restarting compose" -> "Restart"
      [] line = "waiting for health" -> "Health"
      [] OTHER -> "none"

\* the stages named by the progress lines written so far, in their order
StagesReported ==
    LET idx == {k \in 1..Len(out) : StageNamedBy(out[k]) # "none"}
        nth[n \in 0..Len(out)] ==
            IF n = 0 THEN << >>
            ELSE IF n \in idx THEN Append(nth[n - 1], StageNamedBy(out[n]))
            ELSE nth[n - 1]
    IN  nth[Len(out)]

DeployStages == <<"Build", "Migrate", "Retag", "Restart", "Health">>

SuccessLines == {"deploy complete", "Deploy complete"}

(***************************************************************************)
(* C37: in a deploy, when a command of a stage is issued or the gate is    *)
(* entered, a progress line naming that stage has been written; the        *)
(* progress lines name the stages in the order Build, Migrate, Retag,      *)
(* Restart, Health, each once; the success line is written only once the   *)
(* gate returned, as the last line.                                        *)
(***************************************************************************)
C37_EveryStageReported ==
    IsDeploy =>
        /\ \A k \in 1..Len(cmds) :
              \E n \in 1..Len(out) : StageNamedBy(out[n]) = StageOf(cmds[k].op)
        /\ GateEntered => \E n \in 1..Len(out) : StageNamedBy(out[n]) = "Health"
        /\ IsPrefix(StagesReported, DeployStages)
        /\ \A n \in 1..Len(out) :
              out[n] \in SuccessLines => hpc = "returned" /\ pc = "done" /\ n = Len(out)

\* the same for the deploy command of src/commands/deploy.ts alone
DeployTsReportsEveryStage == inv.entry = "deploy" => C37_EveryStageReported

\* the invocation reads the ref updates from stdin
HookMode == inv.entry = "hook" /\ inv.hook

\* the positions of the updates of a refs/heads/ ref
BranchUpdates == {i \in 1..Len(inv.updates) : StartsWith(inv.updates[i].ref, S_refsHeads)}

(***************************************************************************)
(* C38: in hook mode, when stdin holds no update of a refs/heads/ ref the  *)
(* handler returns without loading the config and without issuing a        *)
(* command or a ping; otherwise (the app's config being loadable) it       *)
(* starts the deploy of the first such update and of no other: the tags it *)
(* builds are made of the first 7 characters of that update's new SHA and  *)
(* of its branch name.                                                     *)
(***************************************************************************)
C38_HookDeploysFirstBranchUpdate ==
    HookMode =>
        /\ BranchUpdates = {} =>
              /\ pc \in {"load", "skipped"}
              /\ ~Loaded /\ cmds = << >> /\ hpc = "idle" /\ out = << >>
        /\ (BranchUpdates # {} /\ cfgFile # NoFile /\ pc # "load") =>
              LET i == CHOOSE j \in BranchUpdates : \A k \in BranchUpdates : j <= k
                  u == inv.updates[i]
                  short == SubSeq(u.new, 1, 7)
                  branch == SubSeq(u.ref, Len(S_refsHeads) + 1, Len(u.ref))
              IN  /\ Loaded /\ pc # "skipped"
                  /\ Issued("build") =>
                        /\ TimesIssued("build") = 1
                        /\ CmdOf("build").refs[1] = [repo |-> cfg.image, tag |-> short]
                        /\ CmdOf("build").refs[2] =
                              [repo |-> cfg.image, tag |-> branch \o <<"-">> \o short]

(***************************************************************************)
(* commands/secrets.ts: hl secrets set <app> KEY=VALUE ...                 *)
(* The .env file and the arguments are sequences of characters.            *)
(***************************************************************************)
NL == "\n"

\* String.prototype.indexOf(ch): the 0-based position of the first ch, or -1
indexOf(str, ch) ==
    IF \E i \in 1..Len(str) : str[i] = ch
    THEN (CHOOSE i \in 1..Len(str) : str[i] = ch /\ \A j \in 1..(i - 1) : str[j] # ch) - 1
    ELSE -1

\* text.split("\n")
RECURSIVE split(_)
split(text) ==
    LET i == indexOf(text, NL)
    IN  IF i = -1 THEN <<text>>
        ELSE <<SubSeq(text, 1, i)>> \o split(SubSeq(text, i + 2, Len(text)))

\* Map.prototype.set: a key that is present keeps its place
MapSet(map, k, v) ==
    IF \E i \in 1..Len(map) : map[i][1] = k
    THEN [i \in 1..Len(map) |-> IF map[i][1] = k THEN <<k, v>> ELSE map[i]]
    ELSE Append(map, <<k, v>>)

\* for (const l of lines) if (l && !l.startsWith("#")) { i = l.indexOf("="); if (i > 0) map.set(...) }
RECURSIVE readLines(_, _)
readLines(lines, map) ==
    IF lines = << >> THEN map
    ELSE LET l == Head(lines)
             i == indexOf(l, "=")
         IN  readLines(Tail(lines),
                       IF l # << >> /\ l[1] # "#" /\ i > 0
                       THEN MapSet(map, SubSeq(l, 1, i), SubSeq(l, i + 2, Len(l)))
                       ELSE map)

\* the entries hl reads from the text of a .env file
envMap(text) == readLines(split(text), << >>)

\* for (const kv of pairs): the first pair with i < 1 throws, the others are set
RECURSIVE setPairs(_, _)
setPairs(pairs, map) ==
    IF pairs = << >> THEN [ok |-> TRUE, map |-> map, bad |-> << >>]
    ELSE LET kv == Head(pairs)
             i == indexOf(kv, "=")
         IN  IF i < 1 THEN [ok |-> FALSE, map |-> map, bad |-> kv]
             ELSE setPairs(Tail(pairs), MapSet(map, SubSeq(kv, 1, i), SubSeq(kv, i + 2, Len(kv))))

\* Array.from(map.entries()).map(([k, v]) => `${k}=${v}`).join("\n") + "\n"
RECURSIVE joinEntries(_)
joinEntries(map) ==
    IF map = << >> THEN << >>
    ELSE map[1][1] \o <<"=">> \o map[1][2]
         \o (IF Len(map) > 1 THEN <<NL>> ELSE << >>) \o joinEntries(Tail(map))

envText(map) == joinEntries(map) \o <<NL>>

\* .env files of the app before the command
EnvFiles ==
    { NoEnvFile,
      << >>,
      <<"A", "=", "1", NL>>,
      <<"A", "=", "1", NL, "B", "=", "2", NL>>,
      <<"#", "c", NL, "A", "=", "1", NL>>,
      <<"A", "=", "1", NL, "A", "=", "2", NL>>,
      <<"B", NL, NL, "A", "=", "1">> }

\* arguments: well-formed pairs, a value with "=", an empty value, no "=",
\* an empty key, a key that starts with "#", a value of two lines
PairArgs ==
    { <<"A", "=", "9">>,
      <<"A", "=", "3", "=", "3">>,
      <<"B", "=">>,
      <<"C", "=", "7">>,
      <<"A">>,
      <<"=", "v">>,
      <<"#", "K", "=", "v">>,
      <<"A", "=", "1", NL, "B", "=", "7">> }

PairLists == {<<a>> : a \in PairArgs} \cup {<<a, b>> : a \in PairArgs, b \in PairArgs}

MaxSets == 2

SecretsInit ==
    /\ sec \in { [NoSecrets EXCEPT !.pc = "start", !.pairs = ps, !.file = f,
                                   !.before = f, !.sets = 1] :
                 ps \in PairLists, f \in EnvFiles }
    /\ inv = Invocation("secrets", AppName, << >>, << >>, FALSE, << >>)
    /\ cfgFile = NoFile
    /\ appDir = {"compose.yml"}
    /\ runs = 1
    /\ prev = "none"
    /\ other = NoOther
    /\ cfg = NoCfg
    /\ pc = "idle"
    /\ stage = 0
    /\ status = << >>
    /\ cmds = << >>
    /\ out = << >>
    /\ failure = NoError
    /\ exit = Running
    /\ registry = RegistryBefore
    /\ localImg = LocalBefore
    /\ running = Img(ShaCur)
    /\ now = 0
    /\ start = 0
    /\ timeoutMs = 0
    /\ intervalMs = 0
    /\ hpc = "idle"
    /\ polls = 0
    /\ sleeps = 0
    /\ lastPoll = NoPoll
    /\ seen = {}

\* fs.mkdir(appDir(app), { recursive: true }); fs.access(f), and
\* fs.writeFile(f, "") when the access fails
SecretsPrepare ==
    /\ sec.pc = "start"
    /\ sec' = [sec EXCEPT !.pc = "read",
                          !.dir = TRUE,
                          !.file = IF sec.file = NoEnvFile THEN << >> ELSE sec.file]
    /\ UNCHANGED <<inv, cfgFile, appDir, runs, prev, other, progVars, worldVars, now, healthVars>>

\* fs.readFile, the two loops, and fs.writeFile(f, out) unless a pair threw
SecretsApply ==
    /\ sec.pc = "read"
    /\ LET r == setPairs(sec.pairs, envMap(sec.file))
       IN  IF r.ok
           THEN /\ sec' = [sec EXCEPT !.pc = "done", !.file = envText(r.map)]
                /\ out' = Append(out, "updated")
                /\ UNCHANGED <<failure, exit>>
           ELSE /\ sec' = [sec EXCEPT !.pc = "failed", !.error = r.bad]
                /\ failure' = Err("Error", "bad pair", "secrets", r.bad)
                /\ exit' = "1"
                /\ out' = out
    /\ UNCHANGED <<inv, cfgFile, appDir, runs, prev, other, cfg, pc, stage, status, cmds,
                   worldVars, now, healthVars>>

\* the operator runs the same hl secrets set once more
SecretsAgain ==
    /\ sec.pc = "done"
    /\ sec.sets < MaxSets
    /\ sec' = [sec EXCEPT !.pc = "start", !.sets = @ + 1, !.before = sec.file,
                          !.first = IF sec.sets = 1 THEN sec.file ELSE @]
    /\ out' = << >>
    /\ UNCHANGED <<inv, cfgFile, appDir, runs, prev, other, cfg, pc, stage, status, cmds,
                   failure, exit, worldVars, now, healthVars>>

SecretsNext == SecretsPrepare \/ SecretsApply \/ SecretsAgain

SecretsSpec == SecretsInit /\ [][SecretsNext]_vars

\* a pair without "=" or with nothing before its first "="
Malformed(kv) == (\A i \in 1..Len(kv) : kv[i] # "=") \/ (kv # << >> /\ kv[1] = "=")

SomeMalformed == \E n \in 1..Len(sec.pairs) : Malformed(sec.pairs[n])

\* key and value of a well-formed pair: what is before and after its first "="
KeyOf(kv) == SubSeq(kv, 1, indexOf(kv, "="))

ValueOf(kv) == SubSeq(kv, indexOf(kv, "=") + 2, Len(kv))

\* the keys of a .env file and the value of a key in it, as hl reads the file
KeysIn(file) ==
    IF file = NoEnvFile THEN {} ELSE {envMap(file)[i][1] : i \in 1..Len(envMap(file))}

ValueIn(file, k) ==
    LET m == envMap(file)
    IN  m[CHOOSE i \in 1..Len(m) : m[i][1] = k][2]

GivenKeys == {KeyOf(sec.pairs[n]) : n \in 1..Len(sec.pairs)}

\* the value of the last pair given for the key
LastGiven(k) ==
    ValueOf(sec.pairs[CHOOSE n \in 1..Len(sec.pairs) :
                /\ KeyOf(sec.pairs[n]) = k
                /\ \A j \in (n + 1)..Len(sec.pairs) : KeyOf(sec.pairs[j]) # k])

(***************************************************************************)
(* C39: hl secrets set with a malformed pair (no "=", or an empty key)     *)
(* never ends well: it fails with the bad pair error, and the app's .env   *)
(* file stays as it was before the command, absent if it was absent.       *)
(***************************************************************************)
C39_MalformedPairLeavesEnvFile ==
    SomeMalformed =>
        /\ sec.pc # "done"
        /\ sec.pc = "failed" =>
              /\ failure.text = "bad pair" /\ exit = "1"
              /\ Malformed(failure.detail)
        /\ sec.file = sec.before

\* the same for an app whose .env file exists
EnvFileKeptWhenPresent == sec.before # NoEnvFile => C39_MalformedPairLeavesEnvFile

(***************************************************************************)
(* C40: after hl secrets set ended well, every key given maps in .env to   *)
(* the last value given for it, every key that .env had before and that    *)
(* is not given has the value it had, and the same command run once more   *)
(* leaves the file it left the first time.                                 *)
(***************************************************************************)
C40_SecretsSetMergesAndIsIdempotent ==
    sec.pc = "done" =>
        /\ \A k \in GivenKeys :
              k \in KeysIn(sec.file) /\ ValueIn(sec.file, k) = LastGiven(k)
        /\ \A k \in KeysIn(sec.before) \ GivenKeys :
              k \in KeysIn(sec.file) /\ ValueIn(sec.file, k) = ValueIn(sec.before, k)
        /\ sec.sets = 2 => sec.file = sec.first

\* the same for pairs whose key does not start with "#" and that hold no newline
PlainPairs ==
    \A n \in 1..Len(sec.pairs) :
        /\ sec.pairs[n] # << >> => sec.pairs[n][1] # "#"
        /\ \A i \in 1..Len(sec.pairs[n]) : sec.pairs[n][i] # NL

PlainPairsMergeAndAreIdempotent == PlainPairs => C40_SecretsSetMergesAndIsIdempotent

====
